---- MODULE Spec2Model ----
(***************************************************************************)
(* Model of data/parse-sql-data.py: the converter that reads the SQL dump  *)
(* grc-web.sql, extracts the rows of the INSERT statements of table        *)
(* alerta_cooperativa_sicoob and writes them as one consolidated JSON      *)
(* file, one CSV file and one JSON file per cooperativa.                   *)
(*                                                                         *)
(* Text is modelled as a sequence of one-character strings.  The fixed     *)
(* statement head "INSERT INTO `alerta_cooperativa_sicoob` ... VALUES (" is *)
(* one symbol of that sequence (INSERT_HEAD).                              *)
(***************************************************************************)
EXTENDS Integers, Sequences, FiniteSets, TLC

VARIABLES
  sql_file,      \* the dump on disk: [exists, stmts] (stmts: the tuples as written)
  disk,          \* the output directory: [json, csv, balances]
  pc,            \* position of main / parse_sql_insert_values
  sql_content,   \* main: text read from the dump
  matches,       \* parse_sql_insert_values: result of re.findall
  mi,            \* index of the match the outer loop is at
  rows,          \* result of re.split for matches[mi]
  ri,            \* index of the row the inner loop is at
  records,       \* parse_sql_insert_values / main: list of records
  report,        \* what main reported: "none", "missing", "warning", "success"
  disk_at_start  \* the output directory as the current run found it

vars == <<sql_file, disk, pc, sql_content, matches, mi, rows, ri, records, report, disk_at_start>>

-----------------------------------------------------------------------------
(* Bounds of the model                                                     *)

MaxRows == 2

-----------------------------------------------------------------------------
(* COLUMNS, lines 13-46                                                    *)

COLUMNS ==
  <<
    "cd_sistema", "cd_central", "cd_cooperativa", "ano", "mes",
    "nota_sobras_ou_perdas_sobre_recursos_totais", "nota_inadimplencia",
    "nota_liquidez_na_central", "nota_adto_depositante",
    "nota_custo_fixo_sobre_total_recursos", "nota_tarifas_sobre_custo_fixo",
    "nota_honorarios_e_cedula_sobre_custo_fixo",
    "nota_folha_encargos_sobre_total_recursos",
    "nota_receita_financeira_sobre_total_recursos",
    "nota_retorno_carteira_de_credito",
    "nota_despesas_financeiras_sobre_recursos_captados",
    "nota_despesas_captacao_sobre_dep_prazo",
    "nota_resultado_PCLD_sobre_despesas_totais_mes",
    "nota_resultado_PCLD_sobre_total_recursos", "nota_liquidez_geral",
    "nota_participacao_capital_proprio",
    "nota_rentabilidade_sobras_sobre_receitas_brutas",
    "nota_rentabilidade_sobre_capital_proprio",
    "nota_evolucao_quadro_social", "nota_limite_exposicao_por_cliente",
    "nota_concentacao_carteira_credito", "nota_enquadramento_PRE",
    "nota_concentracao_depositos", "nota_imobilizacao_capital_proprio",
    "nota_evolucao_patrimonial",
    "alerta_sobras_ou_perdas_sobre_recursos_totais", "alerta_inadimplencia",
    "alerta_liquidez_na_central", "alerta_adto_depositante",
    "alerta_custo_fixo_sobre_total_recursos",
    "alerta_tarifas_sobre_custo_fixo",
    "alerta_honorarios_e_cedula_sobre_custo_fixo",
    "alerta_folha_encargos_sobre_total_recursos",
    "alerta_receita_financeira_sobre_total_recursos",
    "alerta_retorno_carteira_de_credito",
    "alerta_despesas_financeiras_sobre_recursos_captados",
    "alerta_despesas_captacao_sobre_dep_prazo",
    "alerta_resultado_PCLD_sobre_despesas_totais_mes",
    "alerta_resultado_PCLD_sobre_total_recursos", "alerta_liquidez_geral",
    "alerta_participacao_capital_proprio",
    "alerta_rentabilidade_sobras_sobre_receitas_brutas",
    "alerta_rentabilidade_sobre_capital_proprio",
    "alerta_evolucao_quadro_social", "alerta_limite_exposicao_por_cliente",
    "alerta_concentacao_carteira_credito", "alerta_enquadramento_PRE",
    "alerta_concentracao_depositos", "alerta_imobilizacao_capital_proprio",
    "alerta_evolucao_patrimonial", "total", "nu_justificativa", "nu_plano",
    "tx_justificativa", "tx_plano", "st_justificativa", "st_plano"
  >>

NumCols == Len(COLUMNS)

ColumnSet == {COLUMNS[i] : i \in 1..NumCols}

\* col.startswith('nota_'): the columns at positions 6..30 of COLUMNS
NotaColumns == {COLUMNS[i] : i \in 6..30}

\* col.startswith('alerta_'): the columns at positions 31..55 of COLUMNS
AlertaColumns == {COLUMNS[i] : i \in 31..55}

-----------------------------------------------------------------------------
(* Python values of a record field: None, int or str                       *)

None == [t |-> "None", i |-> 0, s |-> <<>>]

IntValue(n) == [t |-> "int", i |-> n, s |-> <<>>]

StrValue(chars) == [t |-> "str", i |-> 0, s |-> chars]

-----------------------------------------------------------------------------
(* Text helpers: str.strip, int, str                                       *)

Whitespace == {" ", "\n"}

Digits == <<"0", "1", "2", "3", "4", "5", "6", "7", "8", "9">>

DigitSet == {Digits[k] : k \in 1..10}

DigitVal(c) == (CHOOSE k \in 1..10 : Digits[k] = c) - 1

Min(S) == CHOOSE x \in S : \A y \in S : x <= y

\* the first position from i on whose character is not in cs (Len(s) + 1 if none)
SkipLeft(s, i, cs) ==
  LET P == {k \in i..Len(s) : s[k] \notin cs}
  IN  IF i > Len(s) THEN i ELSE IF P = {} THEN Len(s) + 1 ELSE Min(P)

\* the last position up to j whose character is not in cs (0 if none)
SkipRight(s, j, cs) ==
  CHOOSE m \in 0..j : (m = 0 \/ s[m] \notin cs) /\ \A k \in (m + 1)..j : s[k] \in cs

\* str.strip(chars): remove leading and trailing characters of cs
StripChars(s, cs) ==
  LET i == SkipLeft(s, 1, cs)
      j == SkipRight(s, Len(s), cs)
  IN  IF i > j THEN <<>> ELSE SubSeq(s, i, j)

strip(s) == StripChars(s, Whitespace)

\* int(val) raises ValueError unless val is [ws] [sign] digits [ws]
IsIntLiteral(val) ==
  LET s == strip(val)
      d == IF Len(s) > 0 /\ s[1] \in {"+", "-"} THEN Tail(s) ELSE s
  IN  Len(d) > 0 /\ \A k \in 1..Len(d) : d[k] \in DigitSet

RECURSIVE DigitsValue(_, _, _)
DigitsValue(d, k, acc) ==
  IF k > Len(d) THEN acc ELSE DigitsValue(d, k + 1, 10 * acc + DigitVal(d[k]))

int(val) ==
  LET s == strip(val)
      neg == Len(s) > 0 /\ s[1] = "-"
      d == IF Len(s) > 0 /\ s[1] \in {"+", "-"} THEN Tail(s) ELSE s
      n == DigitsValue(d, 1, 0)
  IN  IF neg THEN 0 - n ELSE n

RECURSIVE NatStr(_)
NatStr(n) ==
  IF n < 10 THEN <<Digits[n + 1]>> ELSE Append(NatStr(n \div 10), Digits[(n % 10) + 1])

\* str(v) of a field value, as an f-string formats it
str(v) ==
  IF v.t = "None" THEN <<"N", "o", "n", "e">>
  ELSE IF v.t = "int" THEN (IF v.i < 0 THEN <<"-">> \o NatStr(0 - v.i) ELSE NatStr(v.i))
  ELSE v.s

-----------------------------------------------------------------------------
(* parse_sql_insert_values, lines 48-108                                   *)

INSERT_HEAD == "INSERT INTO alerta_cooperativa_sicoob VALUES ("

\* the first position from i on that holds c (0 if none)
FirstIndex(s, i, c) ==
  LET P == {k \in i..Len(s) : s[k] = c}
  IN  IF P = {} THEN 0 ELSE Min(P)

\* re.findall(insert_pattern, sql_content): from a statement head the group
\* ([^;]+) extends to the first ";" and must be followed by ");" there; the
\* search goes on after the match, or at the next head when there is none.
RECURSIVE re_findall(_, _, _)
re_findall(s, i, acc) ==
  LET p == FirstIndex(s, i, INSERT_HEAD)
      j == IF p = 0 THEN 0 ELSE FirstIndex(s, p + 1, ";")
  IN  IF p = 0 \/ j = 0 THEN acc
      ELSE IF j - 2 >= p + 1 /\ s[j - 1] = ")"
           THEN re_findall(s, j + 1, Append(acc, SubSeq(s, p + 1, j - 2)))
           ELSE re_findall(s, p + 1, acc)

\* does the pattern "),", whitespace, "(" of re.split match at position i
SplitAt(s, i) ==
  /\ s[i] = ")"
  /\ i + 1 <= Len(s)
  /\ s[i + 1] = ","
  /\ LET k == SkipLeft(s, i + 2, Whitespace) IN k <= Len(s) /\ s[k] = "("

\* line 60, re.split: cut s at every match of the pattern, left to right
RECURSIVE re_split(_, _, _)
re_split(s, start, acc) ==
  LET M == {i \in start..Len(s) : SplitAt(s, i)}
  IN  IF M = {} THEN Append(acc, SubSeq(s, start, Len(s)))
      ELSE LET i == Min(M)
               k == SkipLeft(s, i + 2, Whitespace)
           IN  re_split(s, k + 1, Append(acc, SubSeq(s, start, i - 1)))

\* lines 72-84: the body of the character loop
TokenStep(st, char) ==
  IF char = "'" /\ ~st.in_quotes
  THEN [st EXCEPT !.in_quotes = TRUE, !.current_value = <<>>]
  ELSE IF char = "'" /\ st.in_quotes
  THEN [in_quotes |-> FALSE,
        values |-> Append(st.values, st.current_value),
        current_value |-> <<>>]
  ELSE IF char = "," /\ ~st.in_quotes
  THEN [st EXCEPT
          !.values = IF strip(st.current_value) # <<>>
                     THEN Append(st.values, strip(st.current_value))
                     ELSE st.values,
          !.current_value = <<>>]
  ELSE [st EXCEPT !.current_value = Append(st.current_value, char)]

\* line 71: the loop over the characters row[lo..hi], in order: first those
\* of row[lo..mid], then, from the state they leave, those of row[mid+1..hi]
\* (the test on half forces its evaluation before the second half starts)
RECURSIVE TokenLoop(_, _, _, _)
TokenLoop(row, lo, hi, st) ==
  IF lo > hi THEN st
  ELSE IF lo = hi THEN TokenStep(st, row[lo])
  ELSE LET mid == (lo + hi) \div 2
           half == TokenLoop(row, lo, mid, st)
       IN  IF half.in_quotes \in BOOLEAN
           THEN TokenLoop(row, mid + 1, hi, half)
           ELSE half

\* lines 67-88: the values of a row
Tokenize(row) ==
  LET st == TokenLoop(row, 1, Len(row),
                      [values |-> <<>>, current_value |-> <<>>, in_quotes |-> FALSE])
  IN  IF strip(st.current_value) # <<>>
      THEN Append(st.values, strip(st.current_value))
      ELSE st.values

\* line 91
HasColumnCount_mut(values) == Len(values) >= Len(COLUMNS)

HasColumnCount(values) == Len(values) = Len(COLUMNS)

\* lines 64-88: the values of one row of re.split
RowValues(row) == Tokenize(StripChars(strip(row), {"(", ")"}))

IntColumns_mut ==
  {"ano", "mes"} \cup NotaColumns \cup AlertaColumns
  \cup {"total", "nu_justificativa", "nu_plano", "st_justificativa", "st_plano"}

\* lines 97-102: the columns converted with int()
IntColumns ==
  {"ano", "mes"} \cup NotaColumns \cup AlertaColumns
  \cup {"total", "nu_justificativa", "nu_plano", "st_justificativa", "st_plano"}
  \cup {"cd_sistema", "cd_central", "cd_cooperativa"}

\* lines 95-96: the values that become None
IsEmptyValue(val) == val = <<>> \/ val = <<"'", "'">>

\* lines 95-104: does the conversion of val for column col raise ValueError
ConvertRaises(col, val) ==
  ~IsEmptyValue(val) /\ col \in IntColumns /\ ~IsIntLiteral(val)

\* lines 95-104: the converted value
Convert(col, val) ==
  IF IsEmptyValue(val) THEN None
  ELSE IF col \in IntColumns THEN IntValue(int(val))
  ELSE StrValue(val)

ColumnIndex(col) == CHOOSE i \in 1..NumCols : COLUMNS[i] = col

\* lines 92-104: the record of a row with len(COLUMNS) values
MakeRecord(values) == [col \in ColumnSet |-> Convert(col, values[ColumnIndex(col)])]

RowRaises(values) == \E i \in 1..NumCols : ConvertRaises(COLUMNS[i], values[i])

-----------------------------------------------------------------------------
(* The dump: tuples as written, and their text                             *)

\* A written tuple: the text of its cd_cooperativa field, of one nota field
\* (nota_inadimplencia), of its tx_justificativa field, and the number of
\* fields it has more (+1) or fewer (-1) than the table has columns.
CdFields == {<<"1">>, <<"2">>, <<"'", "'">>}

NotaFields ==
  {<<"3">>, <<"'", "3", "'">>, <<>>, <<"'", "'">>, <<"N", "U", "L", "L">>}

TxFields ==
  { <<"'", "a", "'">>,
    <<"'", "a", ",", "b", "'">>,
    <<"'", "a", ")", ",", "(", "b", "'">>,
    <<"'", "a", "\\", "'", "b", "'">>,
    <<"'", "a", ";", "b", "'">> }

BaseTuple == [cd |-> <<"1">>, nota |-> <<"3">>, tx |-> <<"'", "a", "'">>, extra |-> 0]

Deviations(t) ==
  (IF t.nota # BaseTuple.nota THEN 1 ELSE 0)
  + (IF t.tx # BaseTuple.tx THEN 1 ELSE 0)
  + (IF t.extra # BaseTuple.extra THEN 1 ELSE 0)
  + (IF t.cd = <<"'", "'">> THEN 1 ELSE 0)

AllTuples ==
  {t \in [cd : CdFields, nota : NotaFields, tx : TxFields, extra : {-1, 0, 1}] :
     Deviations(t) <= 1}

\* the tuples of the dumps main is run on: the text field is never malformed
MainTuples ==
  {t \in AllTuples :
     /\ t.tx = BaseTuple.tx
     /\ t.nota \in {<<"3">>, <<"N", "U", "L", "L">>}
     /\ t.extra \in {-1, 0}
     /\ t.cd = <<"2">> => Deviations(t) = 0}

\* the tuples parse_sql_insert_values is checked on: one cooperativa
ParseTuples == {t \in AllTuples : t.cd # <<"2">>}

\* the fields of a written tuple, in the order of the table's columns
TupleFields(t) ==
  LET full == [i \in 1..NumCols |->
                 IF COLUMNS[i] = "cd_cooperativa" THEN t.cd
                 ELSE IF COLUMNS[i] = "nota_inadimplencia" THEN t.nota
                 ELSE IF COLUMNS[i] = "tx_justificativa" THEN t.tx
                 ELSE IF COLUMNS[i] = "tx_plano" THEN <<"'", "'">>
                 ELSE IF COLUMNS[i] = "ano" THEN <<"2", "0", "2", "4">>
                 ELSE IF COLUMNS[i] = "mes" THEN <<"1", "2">>
                 ELSE <<"1">>]
  IN  IF t.extra < 0 THEN SubSeq(full, 1, NumCols - 1)
      ELSE IF t.extra > 0 THEN Append(full, <<"9">>)
      ELSE full

RECURSIVE Join(_, _)
Join(parts, sep) ==
  IF parts = <<>> THEN <<>>
  ELSE IF Len(parts) = 1 THEN parts[1]
  ELSE parts[1] \o sep \o Join(Tail(parts), sep)

TupleText(t) == Join(TupleFields(t), <<",">>)

\* what stands between two tuples of a statement: "),(" or ")," newline "("
Separators == {<<")", ",", "(">>, <<")", ",", "\n", "(">>}

\* one INSERT statement with the tuples ts
StatementText(ts, sep) ==
  <<INSERT_HEAD>> \o Join([k \in 1..Len(ts) |-> TupleText(ts[k])], sep)
  \o <<")", ";", "\n">>

RECURSIVE DumpText(_, _)
DumpText(stmts, sep) ==
  IF stmts = <<>> THEN <<>>
  ELSE StatementText(Head(stmts), sep) \o DumpText(Tail(stmts), sep)

\* the tuples flat cut into statements: a new statement starts after every
\* position of cuts
RECURSIVE Statements(_, _, _, _)
Statements(flat, cuts, k, acc) ==
  IF k > Len(flat) THEN acc
  ELSE IF k = 1 \/ (k - 1) \in cuts
       THEN Statements(flat, cuts, k + 1, Append(acc, <<flat[k]>>))
       ELSE Statements(flat, cuts, k + 1,
                       [acc EXCEPT ![Len(acc)] = Append(acc[Len(acc)], flat[k])])

\* the dumps with at most MaxRows tuples taken from T
Dumps(T) ==
  UNION { { Statements(flat, cuts, 1, <<>>) :
              flat \in [1..n -> T], cuts \in SUBSET (1..(n - 1)) } :
          n \in 0..MaxRows }

-----------------------------------------------------------------------------
(* save_to_json, lines 110-147, and save_to_csv, lines 149-162             *)

\* line 117: f"cooperativa_{record['cd_cooperativa']}"
coop_key(record) == <<"cooperativa_">> \o str(record["cd_cooperativa"])

RECURSIVE by_cooperativa_mut(_, _, _)
by_cooperativa_mut(recs, k, acc) ==
  IF k > Len(recs) THEN acc
  ELSE LET key == coop_key(recs[k])
       IN  by_cooperativa_mut(recs, k + 1,
             [x \in DOMAIN acc \cup {key} |->
                IF x = key THEN <<recs[k]>> ELSE acc[x]])

\* lines 115-120: the loop that fills by_cooperativa
RECURSIVE by_cooperativa(_, _, _)
by_cooperativa(recs, k, acc) ==
  IF k > Len(recs) THEN acc
  ELSE LET key == coop_key(recs[k])
           cur == IF key \in DOMAIN acc THEN acc[key] ELSE <<>>
       IN  by_cooperativa(recs, k + 1,
             [x \in DOMAIN acc \cup {key} |->
                IF x = key THEN Append(cur, recs[k]) ELSE acc[x]])

\* lines 123-131: the consolidated document
output_data(recs) ==
  [ metadata |-> [ total_records |-> Len(recs),
                   total_cooperativas |-> Cardinality(DOMAIN by_cooperativa(recs, 1, <<>>)) ],
    data |-> recs ]

\* lines 142-146: the document of one cooperativa
coop_data(coop_records) ==
  [ cooperativa |-> coop_records[1]["cd_cooperativa"],
    total_registros |-> Len(coop_records),
    periodos |-> coop_records ]

save_to_json_mut(recs, d) ==
  LET groups == by_cooperativa(recs, 1, <<>>)
  IN  [ d EXCEPT
          !.json = <<output_data(recs)>>,
          !.balances = [ x \in DOMAIN groups |-> coop_data(groups[x]) ] ]

\* lines 133-147: the output directory after save_to_json(recs, output_path)
save_to_json(recs, d) ==
  LET groups == by_cooperativa(recs, 1, <<>>)
  IN  [ d EXCEPT
          !.json = <<output_data(recs)>>,
          !.balances = [ x \in DOMAIN d.balances \cup DOMAIN groups |->
                           IF x \in DOMAIN groups THEN coop_data(groups[x])
                           ELSE d.balances[x] ] ]

\* csv.DictWriter writes None as the empty text and an int as its digits
csv_cell(v) == IF v.t = "None" THEN <<>> ELSE str(v)

csv_row(record) == [j \in 1..NumCols |-> csv_cell(record[COLUMNS[j]])]

save_to_csv_mut(recs, d) ==
  IF recs = <<>> THEN d
  ELSE [ d EXCEPT !.csv = << [ header |-> COLUMNS,
                               rows |-> [k \in 1..(Len(recs) - 1) |-> csv_row(recs[k + 1])] ] >> ]

\* lines 153-160: the output directory after save_to_csv(recs, output_path)
save_to_csv(recs, d) ==
  IF recs = <<>> THEN d
  ELSE [ d EXCEPT !.csv = << [ header |-> COLUMNS,
                               rows |-> [k \in 1..Len(recs) |-> csv_row(recs[k])] ] >> ]

-----------------------------------------------------------------------------
(* main, lines 164-208                                                     *)

\* lines 191-196: min() and max() of a set that holds None and an int raise
StatsRaise(recs) ==
  \E col \in {"cd_cooperativa", "ano"} :
    LET S == {recs[k][col] : k \in 1..Len(recs)}
    IN  None \in S /\ Cardinality(S) > 1

EmptyDisk == [json |-> <<>>, csv |-> <<>>, balances |-> <<>>]

MissingFile == [exists |-> FALSE, stmts |-> <<>>, sep |-> <<")", ",", "(">>]

SqlFiles(T) ==
  {MissingFile}
  \cup {[exists |-> TRUE, stmts |-> ss, sep |-> sep] : ss \in Dumps(T), sep \in Separators}

\* number of tuples of a dump that are not as the base tuple is
Deviating(stmts) ==
  Cardinality({<<i, k>> \in (1..Len(stmts)) \X (1..MaxRows) :
                 k <= Len(stmts[i]) /\ Deviations(stmts[i][k]) > 0})

\* the dumps main is run on: one INSERT statement for the table, its tuples
\* separated by "),(",
\* well-formed rows of the two cooperativas, or rows of the first of them and
\* one tuple that is not as the base tuple is
MainFiles ==
  {f \in SqlFiles(MainTuples) :
     /\ Len(f.stmts) <= 1
     /\ f.sep = MissingFile.sep
     /\ Deviating(f.stmts) <= 1
     /\ Deviating(f.stmts) = 1 =>
          \A k \in 1..Len(f.stmts[1]) :
            Deviations(f.stmts[1][k]) = 0 => f.stmts[1][k] = BaseTuple}

\* the dumps parse_sql_insert_values is checked on: at most one of their tuples
\* not as the base tuple is
ParseFiles == {f \in SqlFiles(ParseTuples) \ {MissingFile} : Deviating(f.stmts) <= 1}

Locals ==
  /\ sql_content = <<>>
  /\ matches = <<>>
  /\ mi = 0
  /\ rows = <<>>
  /\ ri = 0
  /\ records = <<>>
  /\ report = "none"

\* the script has not been run yet: the output directory is empty
Init ==
  /\ sql_file = MissingFile
  /\ disk = EmptyDisk
  /\ disk_at_start = EmptyDisk
  /\ pc = "off"
  /\ Locals

\* lines 210-211: the script is started, on whatever dump is there then
Start ==
  /\ pc = "off"
  /\ sql_file' \in MainFiles
  /\ disk_at_start' = disk
  /\ pc' = "main"
  /\ UNCHANGED <<disk, sql_content, matches, mi, rows, ri, records, report>>

\* lines 173-175
MainMissing ==
  /\ pc = "main"
  /\ ~sql_file.exists
  /\ report' = "missing"
  /\ pc' = "exit"
  /\ UNCHANGED <<sql_file, disk, disk_at_start, sql_content, matches, mi, rows, ri, records>>

\* lines 177-182
MainRead ==
  /\ pc = "main"
  /\ sql_file.exists
  /\ sql_content' = DumpText(sql_file.stmts, sql_file.sep)
  /\ pc' = "extract"
  /\ UNCHANGED <<sql_file, disk, disk_at_start, matches, mi, rows, ri, records, report>>

\* lines 52-56
ParseFindAll ==
  /\ pc = "extract"
  /\ records' = <<>>
  /\ matches' = re_findall(sql_content, 1, <<>>)
  /\ mi' = 1
  /\ pc' = "match_loop"
  /\ UNCHANGED <<sql_file, disk, disk_at_start, sql_content, rows, ri, report>>

\* lines 58-60
ParseSplit ==
  /\ pc = "match_loop"
  /\ mi <= Len(matches)
  /\ rows' = re_split(matches[mi], 1, <<>>)
  /\ ri' = 1
  /\ pc' = "row_loop"
  /\ UNCHANGED <<sql_file, disk, disk_at_start, sql_content, matches, mi, records, report>>

\* lines 62-106: one iteration of the loop over rows
ParseRow ==
  /\ pc = "row_loop"
  /\ ri <= Len(rows)
  /\ LET values == RowValues(rows[ri]) IN
       IF HasColumnCount(values)
       THEN IF RowRaises(values)
            THEN /\ pc' = "traceback"
                 /\ UNCHANGED <<records, ri>>
            ELSE /\ records' = Append(records, MakeRecord(values))
                 /\ ri' = ri + 1
                 /\ pc' = "row_loop"
       ELSE /\ ri' = ri + 1
            /\ pc' = "row_loop"
            /\ UNCHANGED records
  /\ UNCHANGED <<sql_file, disk, disk_at_start, sql_content, matches, mi, rows, report>>

\* line 58: the loop over rows is exhausted, next match
ParseNextMatch ==
  /\ pc = "row_loop"
  /\ ri > Len(rows)
  /\ mi' = mi + 1
  /\ pc' = "match_loop"
  /\ UNCHANGED <<sql_file, disk, disk_at_start, sql_content, matches, rows, ri, records, report>>

\* line 108
ParseReturn ==
  /\ pc = "match_loop"
  /\ mi > Len(matches)
  /\ pc' = "extracted"
  /\ UNCHANGED <<sql_file, disk, disk_at_start, sql_content, matches, mi, rows, ri, records, report>>

\* lines 189-197
MainStats ==
  /\ pc = "extracted"
  /\ records # <<>>
  /\ pc' = IF StatsRaise(records) THEN "traceback" ELSE "save_json"
  /\ UNCHANGED <<sql_file, disk, disk_at_start, sql_content, matches, mi, rows, ri, records, report>>

MainWarn_mut ==
  /\ pc = "extracted"
  /\ records = <<>>
  /\ disk' = save_to_csv(records, save_to_json(records, disk))
  /\ report' = "warning"
  /\ pc' = "exit"
  /\ UNCHANGED <<sql_file, disk_at_start, sql_content, matches, mi, rows, ri, records>>

\* lines 205-206
MainWarn ==
  /\ pc = "extracted"
  /\ records = <<>>
  /\ report' = "warning"
  /\ pc' = "exit"
  /\ UNCHANGED <<sql_file, disk, disk_at_start, sql_content, matches, mi, rows, ri, records>>

\* line 201
SaveToJson ==
  /\ pc = "save_json"
  /\ disk' = save_to_json(records, disk)
  /\ pc' = "save_csv"
  /\ UNCHANGED <<sql_file, disk_at_start, sql_content, matches, mi, rows, ri, records, report>>

\* lines 202-204
SaveToCsv ==
  /\ pc = "save_csv"
  /\ disk' = save_to_csv(records, disk)
  /\ report' = "success"
  /\ pc' = "exit"
  /\ UNCHANGED <<sql_file, disk_at_start, sql_content, matches, mi, rows, ri, records>>

\* the process ends, by the return of main or by the traceback of an
\* exception nothing catches: its variables are gone, the files stay
Terminate ==
  /\ pc \in {"exit", "traceback"}
  /\ pc' = "off"
  /\ sql_file' = MissingFile
  /\ sql_content' = <<>>
  /\ matches' = <<>>
  /\ mi' = 0
  /\ rows' = <<>>
  /\ ri' = 0
  /\ records' = <<>>
  /\ report' = "none"
  /\ UNCHANGED <<disk, disk_at_start>>

Parse == ParseFindAll \/ ParseSplit \/ ParseRow \/ ParseNextMatch \/ ParseReturn

Next ==
  \/ Start
  \/ MainMissing
  \/ MainRead
  \/ Parse
  \/ MainStats
  \/ MainWarn
  \/ SaveToJson
  \/ SaveToCsv
  \/ Terminate

Spec == Init /\ [][Next]_vars

\* parse_sql_insert_values alone, called on the text of any dump
InitParse ==
  /\ sql_file \in ParseFiles
  /\ disk = EmptyDisk
  /\ disk_at_start = EmptyDisk
  /\ pc = "extract"
  /\ sql_content = DumpText(sql_file.stmts, sql_file.sep)
  /\ matches = <<>>
  /\ mi = 0
  /\ rows = <<>>
  /\ ri = 0
  /\ records = <<>>
  /\ report = "none"

SpecParse == InitParse /\ [][Parse]_vars

-----------------------------------------------------------------------------
(* Properties                                                              *)

\* the tuples of a dump, in the order they are written
RECURSIVE FlatTuples(_)
FlatTuples(stmts) ==
  IF stmts = <<>> THEN <<>> ELSE Head(stmts) \o FlatTuples(Tail(stmts))

Written == FlatTuples(sql_file.stmts)

\* the text between the quotes of a quoted literal; any other field as it is
Unquote(field) ==
  IF Len(field) >= 2 /\ field[1] = "'" /\ field[Len(field)] = "'"
  THEN SubSeq(field, 2, Len(field) - 1)
  ELSE field

\* number of rows among rs[1..n] that have as many values as the table has columns
FullRows(rs, n) == Cardinality({k \in 1..n : Len(RowValues(rs[k])) = NumCols})

RECURSIVE FullRowsOfMatches(_)
FullRowsOfMatches(n) ==
  IF n = 0 THEN 0
  ELSE FullRowsOfMatches(n - 1)
       + FullRows(re_split(matches[n], 1, <<>>), Len(re_split(matches[n], 1, <<>>)))

\* rows with the right number of values among the rows the loops have gone through
FullRowsDone ==
  IF pc = "match_loop" \/ pc = "extracted" THEN FullRowsOfMatches(mi - 1)
  ELSE FullRowsOfMatches(mi - 1) + FullRows(rows, ri - 1)

\* the keys of the group files save_to_json writes for recs
KeysOf(recs) == {coop_key(recs[k]) : k \in 1..Len(recs)}

\* number of positions of the list s that hold r
Count(s, r) == Cardinality({k \in 1..Len(s) : s[k] = r})

RECURSIVE SumOver(_, _)
SumOver(S, f) ==
  IF S = {} THEN 0 ELSE LET x == CHOOSE y \in S : TRUE IN f[x] + SumOver(S \ {x}, f)

\* C1: after save_to_json every record is in exactly one group file, the one
\* named for its cd_cooperativa, and the periodos lists of the group files
\* the call wrote hold, together, exactly the records passed in (each as
\* often as it was passed).
C1_GroupFilesPartitionRecords ==
  (pc = "save_csv" \/ (pc = "exit" /\ report = "success")) =>
    /\ \A i \in 1..Len(records) :
         {k \in DOMAIN disk.balances : Count(disk.balances[k].periodos, records[i]) > 0}
           = {coop_key(records[i])}
    /\ \A i \in 1..Len(records) :
         SumOver(KeysOf(records),
                 [k \in KeysOf(records) |-> Count(disk.balances[k].periodos, records[i])])
           = Count(records, records[i])
    /\ \A k \in KeysOf(records) : \A j \in 1..Len(disk.balances[k].periodos) :
         Count(records, disk.balances[k].periodos[j]) > 0

\* C1 witness: a second run has saved records of two cooperativas
C1_Witness ==
  /\ pc = "save_csv"
  /\ Len(records) = 2
  /\ Cardinality(KeysOf(records)) = 2
  /\ DOMAIN disk_at_start.balances # {}

\* C2: after a run that wrote its outputs, total_records of the consolidated
\* JSON, the length of its data, the number of data rows of the CSV and the
\* sum of total_registros over the group files of the run are the same number.
C2_RecordCountsAgree ==
  (pc = "exit" /\ report = "success") =>
    LET doc  == disk.json[1]
        keys == KeysOf(doc.data)
    IN  /\ doc.metadata.total_records = Len(doc.data)
        /\ Len(disk.csv[1].rows) = Len(doc.data)
        /\ SumOver(keys, [k \in keys |-> disk.balances[k].total_registros]) = Len(doc.data)
        /\ Len(doc.data) = Len(records)

\* C2 witness: a run wrote two records into two group files
C2_Witness ==
  /\ pc = "exit"
  /\ report = "success"
  /\ Len(disk.json[1].data) = 2
  /\ Cardinality(KeysOf(records)) = 2

\* C3: a row whose number of values differs from the number of columns adds
\* no record and raises nothing, and the rows after it are still parsed: the
\* records so far are as many as the rows gone through that have the right
\* number of values, and only such a row can raise.
C3_WrongCountRowsDropped ==
  pc \in {"match_loop", "row_loop", "extracted", "traceback"} =>
    /\ Len(records) = FullRowsDone
    /\ pc = "traceback" => ri <= Len(rows) /\ Len(RowValues(rows[ri])) = NumCols

\* C3 witness: the first of two rows had the wrong count, the second gave a record
C3_Witness ==
  /\ pc = "extracted"
  /\ Len(matches) = 1
  /\ Len(rows) = 2
  /\ Len(RowValues(rows[1])) # NumCols
  /\ Len(RowValues(rows[2])) = NumCols
  /\ Len(records) = 1

\* C4: parse_sql_insert_values never raises, whatever the input text
C4_ParseNeverRaises == pc # "traceback"

\* C5: in every record, every column but tx_justificativa and tx_plano holds
\* an int or None
C5_IntColumnsNeverText ==
  \A k \in 1..Len(records) :
    \A col \in ColumnSet \ {"tx_justificativa", "tx_plano"} :
      records[k][col].t \in {"int", "None"}

\* C5 witness: a record whose nota_inadimplencia was written as the quoted '3'
C5_Witness ==
  /\ pc = "extracted"
  /\ Len(Written) = 1
  /\ Written[1].nota = <<"'", "3", "'">>
  /\ Len(records) = 1
  /\ records[1]["nota_inadimplencia"] = IntValue(3)
  /\ records[1]["cd_cooperativa"] = IntValue(1)

\* C6: the quoted literal of a tuple is one value of one row, whatever its
\* text: a statement has as many rows as tuples were written, and the text of
\* the tx_justificativa literal of the k-th tuple is exactly one value of the
\* k-th row.
C6_QuotedLiteralIsOneValue ==
  (pc = "row_loop" /\ Len(matches) = Len(sql_file.stmts)) =>
    /\ Len(rows) = Len(sql_file.stmts[mi])
    /\ \A k \in 1..Len(sql_file.stmts[mi]) :
         k <= Len(rows) =>
           Count(RowValues(rows[k]), Unquote(sql_file.stmts[mi][k].tx)) = 1

IsFullTuple(t) == t.extra = 0

\* C7: every tuple written with len(COLUMNS) fields gives one record, whose
\* i-th column holds the typed value of the i-th field
C7_FullTupleGivesRecord ==
  pc = "extracted" =>
    LET full == SelectSeq(Written, IsFullTuple)
    IN  /\ Len(records) = Len(full)
        /\ \A k \in 1..Len(full) : \A i \in 1..NumCols :
             k <= Len(records) =>
               records[k][COLUMNS[i]] = Convert(COLUMNS[i], Unquote(TupleFields(full[k])[i]))

\* C8: an empty field and a quoted-empty field become None at their column,
\* and the fields after them stay at their columns
C8_EmptyFieldIsNone ==
  (/\ pc = "extracted"
   /\ \A k \in 1..Len(Written) :
        /\ Written[k].extra = 0
        /\ Written[k].tx = BaseTuple.tx
        /\ Written[k].nota \in {<<>>, <<"'", "'">>, <<"3">>}) =>
    /\ Len(records) = Len(Written)
    /\ \A k \in 1..Len(Written) :
         (k <= Len(records) /\ Written[k].nota \in {<<>>, <<"'", "'">>}) =>
           /\ records[k]["nota_inadimplencia"] = None
           /\ records[k]["tx_justificativa"] = StrValue(<<"a">>)

\* C9: main reports two failures, a missing dump and no records, and writes
\* nothing in either: the output directory is as the run found it; with a
\* missing dump the run ends before it reads or parses.
C9_FailuresWriteNothing ==
  /\ report \in {"none", "missing", "warning", "success"}
  /\ pc = "exit" => report \in {"missing", "warning", "success"}
  /\ report = "missing" =>
       /\ ~sql_file.exists
       /\ disk = disk_at_start
       /\ sql_content = <<>> /\ mi = 0 /\ matches = <<>> /\ records = <<>>
  /\ report = "warning" =>
       /\ records = <<>>
       /\ disk = disk_at_start
  /\ report = "success" => sql_file.exists /\ records # <<>>

\* C9 witness: a run ended with the warning and the files of the run before are there
C9_Witness ==
  /\ report = "warning"
  /\ pc = "exit"
  /\ disk.json # <<>>
  /\ disk.csv # <<>>
  /\ DOMAIN disk.balances # {}

\* C10: the output directory changes only in the save steps of a run, after
\* parsing has gone through the whole input, and then a group file whose key
\* is not among the run's records stays as it is and no group file of such a
\* key appears.
C10_WritesOnlyOwnFiles ==
  [][ disk' # disk =>
        /\ pc \in {"save_json", "save_csv"}
        /\ mi > Len(matches)
        /\ records' = records
        /\ disk_at_start' = disk_at_start
        /\ \A k \in DOMAIN disk.balances \ KeysOf(records) :
             k \in DOMAIN disk'.balances /\ disk'.balances[k] = disk.balances[k]
        /\ DOMAIN disk'.balances \subseteq DOMAIN disk.balances \cup KeysOf(records)
    ]_vars

\* C10 witness: a run has saved its files and a group file of another key is still there
C10_Witness ==
  /\ pc = "exit"
  /\ report = "success"
  /\ DOMAIN disk.balances \ KeysOf(records) # {}
  /\ disk.json # disk_at_start.json

====
